---------------------------- MODULE Spec2Model ----------------------------
(***************************************************************************)
(* SaudAI relay: an Express gateway that forwards a chat message with a    *)
(* fixed persona prompt to a model backend and returns the reply as JSON.  *)
(* The repository holds several revisions of server.js; the model keeps    *)
(* them apart in the variable rev:                                         *)
(*   "openai"  src/backend/server.js 1-97     (OpenAI Responses client)    *)
(*   "srv"     src/backend/server.js 99-269   (stream + sync, Ollama)      *)
(*   "p000"    src/unnamed/part_000           (plain fetch, no timer)      *)
(*   "p001"    src/unnamed/part_001 1-190     (callDeepSeek, stream)       *)
(*   "echo"    src/unnamed/part_001 192-229   (test mode, no backend)      *)
(*   "p002"    src/unnamed/part_002           (stream + NDJSON-aware sync) *)
(*   "p003"    src/unnamed/part_003           (callOllamaChat, one shot)   *)
(* Text is modelled as TLA+ strings of ASCII characters, on which          *)
(* TextDecoder.decode maps bytes to characters one to one.                 *)
(***************************************************************************)
EXTENDS Naturals, Sequences, FiniteSets, TLC

VARIABLES
    rev,        \* the revision of server.js that is running
    route,      \* the route of the inbound request
    message,    \* req.body.message, a JSON value (Undefined when missing)
    pc,         \* where the handler of the inbound request stands
    sent,       \* the outbound backend calls issued, in order
    timer,      \* the setTimeout handle: "none", "pending", "fired", "cleared"
    elapsed,    \* timeoutMs has passed since setTimeout was called
    status,     \* resp.status of the backend response (0 before the headers)
    ctype,      \* content-type header of the backend response
    body,       \* the bytes the backend is going to send as the body
    pos,        \* how many of them have been delivered
    buffer,     \* callDeepSeekStream's rolling buffer
    finalText,  \* callDeepSeekStream's accumulated text
    cuts,       \* how the chunks read so far cut the body into pieces
    result,     \* what the aggregator returned to the handler (Undefined: nothing)
    err,        \* the error the handler's catch received (NoError when none)
    responses,  \* the responses sent to the client, in order
    netfail,    \* fetch, reader.read() or resp.text() rejected on a network error
    pair        \* two requests served at the same time (see SpecPair)

\* the state of one request
request == <<route, message, pc, sent, timer, elapsed, status, ctype, body,
             pos, buffer, finalText, cuts, result, err, responses, netfail>>

vars == <<rev, request, pair>>

-----------------------------------------------------------------------------
(* JavaScript values, as far as the handlers look at them.                 *)

Undefined == [t |-> "undefined", s |-> "", f |-> <<>>]
Null      == [t |-> "null", s |-> "", f |-> <<>>]
Str(x)    == [t |-> "string", s |-> x, f |-> <<>>]
Num(x)    == [t |-> "number", s |-> x, f |-> <<>>]     \* x: the decimal literal
Bool(x)   == [t |-> "boolean", s |-> x, f |-> <<>>]    \* x: "true" or "false"
Obj(r)    == [t |-> "object", s |-> "", f |-> r]       \* r: a record of values
Arr(q)    == [t |-> "array", s |-> "", f |-> q]        \* q: a tuple of values

\* typeof v === "string"
IsString(v) == v.t = "string"

\* Boolean(v): undefined, null, "", 0 and false are falsy
Truthy(v) ==
    CASE v.t \in {"undefined", "null"} -> FALSE
      [] v.t = "string"  -> v.s # ""
      [] v.t = "number"  -> v.s # "0"
      [] v.t = "boolean" -> v.s = "true"
      [] OTHER -> TRUE

\* v?.k for a property name k: undefined on null and undefined, and on
\* primitives and arrays, which have no such own property
Get(v, k) ==
    IF v.t = "object" /\ k \in DOMAIN v.f THEN v.f[k] ELSE Undefined

\* v?.[i] for a zero-based index i
At(v, i) ==
    IF v.t = "array" /\ (i + 1) \in DOMAIN v.f THEN v.f[i + 1] ELSE Undefined

\* String(v), as `finalText += v` and template literals apply it
ToStr(v) ==
    CASE v.t \in {"string", "number", "boolean"} -> v.s
      [] v.t = "object" -> "[object Object]"
      [] v.t = "array"  -> ""
      [] OTHER -> v.t

-----------------------------------------------------------------------------
(* Strings.                                                                *)

CharAt(s, i) == SubSeq(s, i, i)

IsSpace(c) == c \in {" ", "\n", "\t", "\r"}

\* indexes of the characters of s that are not white space
Inked(s) == {i \in 1..Len(s) : ~IsSpace(CharAt(s, i))}

Least(S) == CHOOSE i \in S : \A j \in S : i <= j

Greatest(S) == CHOOSE i \in S : \A j \in S : j <= i

\* String.prototype.trim
Trim(s) ==
    IF Inked(s) = {} THEN "" ELSE SubSeq(s, Least(Inked(s)), Greatest(Inked(s)))

\* indexes of the "\n" of s
Newlines(s) == {i \in 1..Len(s) : CharAt(s, i) = "\n"}

\* s.split("\n"): never empty, its last element is what follows the last "\n"
RECURSIVE SplitLines(_)
SplitLines(s) ==
    IF Newlines(s) = {} THEN <<s>>
    ELSE LET i == Least(Newlines(s)) IN
         <<SubSeq(s, 1, i - 1)>> \o SplitLines(SubSeq(s, i + 1, Len(s)))

\* s.includes(sub)
Includes(s, sub) ==
    \/ sub = ""
    \/ \E i \in 1..Len(s) : i + Len(sub) - 1 <= Len(s) /\ SubSeq(s, i, i + Len(sub) - 1) = sub

\* s.slice(0, n)
Slice0(s, n) == SubSeq(s, 1, IF Len(s) < n THEN Len(s) ELSE n)

-----------------------------------------------------------------------------
(* JSON texts the backend may send, and JSON.parse on them.  A text that   *)
(* is not listed is not JSON: JSON.parse throws SyntaxError on it.         *)

\* one NDJSON fragment {"message":{"content":c}}
Fragment(c) == Obj([message |-> Obj([content |-> c])])

FragIAm   == "{\"message\":{\"content\":\"I am \"},\"done\":false}"
FragTech  == "{\"message\":{\"content\":\"a Technical \"},\"done\":false}"
FragMgr   == "{\"message\":{\"content\":\"Marketing Manager.\"},\"done\":true}"
FragHi    == "{\"message\":{\"content\":\"Hi \"}}"
FragYou   == "{\"message\":{\"content\":\" you\"}}"
FragThink == "{\"message\":{\"thinking\":\"hm\"}}"
FragBoth  == "{\"message\":{\"content\":\"ok\",\"thinking\":\"hm\"}}"
FragNum   == "{\"message\":{\"content\":5}}"
FragTrue  == "{\"message\":{\"content\":true}}"
FragObj   == "{\"message\":{\"content\":{}}}"
FragArr   == "{\"message\":{\"content\":[]}}"
FragNull  == "{\"message\":{\"content\":null}}"
FragDone  == "{\"done\":true}"
FragSpace == "{\"message\":{\"content\":\" \"}}"
FragOk    == "{\"message\":{\"content\":\"ok\"}}"
FragEmpty == "{\"message\":{}}"
JsonNull  == "null"
JsonNum   == "5"
Truncated == "{\"message\":"
Garbage   == "data: x"
DocOutputText == "{\"output_text\":\"out\"}"
DocOutput     == "{\"output\":[{\"content\":[{\"text\":\"nested\"}]}]}"
DocChoices    == "{\"choices\":[{\"message\":{\"content\":\"choice\"}}]}"
DocMsgAndOut  == "{\"message\":{\"content\":\"direct\"},\"output_text\":\"out\"}"
DocTyped      == "{\"output\":[{\"content\":[{\"type\":\"output_text\",\"text\":\"typed\"}]}]}"
DocError      == "{\"error\":\"model not found\"}"

\* JSON.parse(text): ok is FALSE when it throws
JSONParse(text) ==
    LET yes(v) == [ok |-> TRUE, v |-> v] IN
    CASE text = FragIAm ->
           yes(Obj([message |-> Obj([content |-> Str("I am ")]), done |-> Bool("false")]))
      [] text = FragTech ->
           yes(Obj([message |-> Obj([content |-> Str("a Technical ")]), done |-> Bool("false")]))
      [] text = FragMgr ->
           yes(Obj([message |-> Obj([content |-> Str("Marketing Manager.")]), done |-> Bool("true")]))
      [] text = FragHi    -> yes(Fragment(Str("Hi ")))
      [] text = FragYou   -> yes(Fragment(Str(" you")))
      [] text = FragThink ->
           yes(Obj([message |-> Obj([thinking |-> Str("hm")])]))
      [] text = FragBoth ->
           yes(Obj([message |-> Obj([content |-> Str("ok"), thinking |-> Str("hm")])]))
      [] text = FragNum   -> yes(Fragment(Num("5")))
      [] text = FragTrue  -> yes(Fragment(Bool("true")))
      [] text = FragObj   -> yes(Fragment(Obj(<<>>)))
      [] text = FragArr   -> yes(Fragment(Arr(<<>>)))
      [] text = FragNull  -> yes(Fragment(Null))
      [] text = FragDone  -> yes(Obj([done |-> Bool("true")]))
      [] text = FragSpace -> yes(Fragment(Str(" ")))
      [] text = FragOk    -> yes(Fragment(Str("ok")))
      [] text = FragEmpty -> yes(Obj([message |-> Obj(<<>>)]))
      [] text = JsonNull  -> yes(Null)
      [] text = JsonNum   -> yes(Num("5"))
      [] text = DocOutputText -> yes(Obj([output_text |-> Str("out")]))
      [] text = DocOutput ->
           yes(Obj([output |-> Arr(<<Obj([content |-> Arr(<<Obj([text |-> Str("nested")])>>)])>>)]))
      [] text = DocChoices ->
           yes(Obj([choices |-> Arr(<<Obj([message |-> Obj([content |-> Str("choice")])])>>)]))
      [] text = DocMsgAndOut ->
           yes(Obj([message |-> Obj([content |-> Str("direct")]), output_text |-> Str("out")]))
      [] text = DocTyped ->
           yes(Obj([output |-> Arr(<<Obj([content |->
                 Arr(<<Obj([type |-> Str("output_text"), text |-> Str("typed")])>>)])>>)]))
      [] text = DocError  -> yes(Obj([error |-> Str("model not found")]))
      [] OTHER -> [ok |-> FALSE, v |-> Undefined]

-----------------------------------------------------------------------------
(* The streaming decoder of callDeepSeekStream / callDeepSeek.             *)

\* LineText with message.thinking appended after the text delta
LineText_WithThinking(line) ==
    LET trimmed == Trim(line)
        j == JSONParse(trimmed)
        content == Get(Get(j.v, "message"), "content")
        thinking == Get(Get(j.v, "message"), "thinking")
    IN  IF trimmed = "" \/ ~j.ok THEN ""
        ELSE (IF Truthy(content) /\ IsString(content) THEN content.s ELSE "")
             \o (IF IsString(thinking) THEN thinking.s ELSE "")

\* LineText with a line that is not JSON appended as it is
LineText_KeepsRaw(line) ==
    LET trimmed == Trim(line)
        j == JSONParse(trimmed)
        content == Get(Get(j.v, "message"), "content")
    IN  IF trimmed = "" THEN ""
        ELSE IF ~j.ok THEN trimmed
        ELSE IF Truthy(content) /\ IsString(content) THEN content.s
        ELSE ""

\* The body of `for (const line of lines)`: what one complete line adds to
\* finalText.  A blank line is skipped, a line JSON.parse throws on is
\* skipped, and message.content counts only when truthy and a string.
LineText(line) ==
    LET trimmed == Trim(line)
        j == JSONParse(trimmed)
        content == Get(Get(j.v, "message"), "content")
    IN  IF trimmed = "" THEN ""
        ELSE IF ~j.ok THEN ""
        ELSE IF Truthy(content) /\ IsString(content) THEN content.s
        ELSE ""

\* The leftover buffer after the stream ended.  The "srv" revision tests
\* only that message.content is truthy and appends String(content).
LeftoverText(r, buf) ==
    LET leftover == Trim(buf)
        j == JSONParse(leftover)
        content == Get(Get(j.v, "message"), "content")
    IN  IF leftover = "" THEN ""
        ELSE IF ~j.ok THEN ""
        ELSE IF r = "srv"
             THEN (IF Truthy(content) THEN ToStr(content) ELSE "")
        ELSE IF Truthy(content) /\ IsString(content) THEN content.s
        ELSE ""

\* Remainder with the partial line thrown away (`buffer = ""`)
Remainder_Dropped(lines) == ""

\* lines.pop(): the remainder kept in the buffer
Remainder(lines) == lines[Len(lines)]

\* the complete lines of buffer.split("\n"), the remainder popped off
CompleteLines(lines) == SubSeq(lines, 1, Len(lines) - 1)

RECURSIVE LinesText(_)
LinesText(lines) ==
    IF lines = <<>> THEN "" ELSE LineText(Head(lines)) \o LinesText(Tail(lines))

\* The name of the exception the statements inside `try` raise on a line,
\* "" when none: JSON.parse raises SyntaxError on text that is not JSON, and
\* `j.done` of the "p001" loop raises TypeError when j is null.  Both come
\* after, or instead of, the append to finalText.
LineRaises(r, line, inLoop) ==
    LET trimmed == Trim(line)
        j == JSONParse(trimmed)
    IN  IF trimmed = "" THEN ""
        ELSE IF ~j.ok THEN "SyntaxError"
        ELSE IF r = "p001" /\ inLoop /\ j.v.t = "null" THEN "TypeError"
        ELSE ""

\* Catch that throws the exception on
Catch_Rethrow(e) == e

\* What the `catch` that closes the try leaves of an exception e: its block
\* is empty, the exception ends there.
Catch(e) == ""

\* the first exception that leaves the loop over the complete lines, or ""
RECURSIVE LinesThrow(_, _)
LinesThrow(r, lines) ==
    IF lines = <<>> THEN ""
    ELSE IF Catch(LineRaises(r, Head(lines), TRUE)) # ""
         THEN Catch(LineRaises(r, Head(lines), TRUE))
    ELSE LinesThrow(r, Tail(lines))

\* the exception that leaves the decoding of the leftover buffer, or ""
LeftoverThrows(r, buf) == Catch(LineRaises(r, buf, FALSE))

\* ProcessChunk that decodes the remainder with the complete lines
ProcessChunk_Eager(buf, txt, chunk) ==
    LET lines == SplitLines(buf \o chunk) IN
    [buffer |-> Remainder(lines), finalText |-> txt \o LinesText(lines)]

\* ProcessChunk that assigns the text of the chunk instead of appending it
ProcessChunk_Rewrites(buf, txt, chunk) ==
    LET lines == SplitLines(buf \o chunk) IN
    [buffer |-> Remainder(lines), finalText |-> LinesText(CompleteLines(lines))]

\* One turn of the reader loop on a chunk: [buffer, finalText] after it.
ProcessChunk(buf, txt, chunk) ==
    LET lines == SplitLines(buf \o chunk) IN
    [buffer |-> Remainder(lines),
     finalText |-> txt \o LinesText(CompleteLines(lines))]

\* FinishStream that does not look at the leftover
FinishStream_NoLeftover(r, buf, txt) == Trim(txt)

\* After the loop: the leftover is tried once, and the text is trimmed.
FinishStream(r, buf, txt) == Trim(txt \o LeftoverText(r, buf))

-----------------------------------------------------------------------------
(* The gateway: routes, validation, the prompt, the replies.               *)

Revisions == {"openai", "srv", "p000", "p001", "echo", "p002", "p003"}

\* revisions whose /api/saudai consumes the body as a stream
StreamRevisions == {"srv", "p001", "p002"}

Routes(r) ==
    IF r \in {"srv", "p002"} THEN {"/api/saudai", "/api/saudai_sync"}
    ELSE {"/api/saudai"}

\* how the handler of a route talks to the backend
Mode(r, rt) ==
    IF r = "echo" THEN "none"
    ELSE IF r = "openai" THEN "sdk"
    ELSE IF r = "p000" THEN "plain"
    ELSE IF r = "p003" THEN "chat"
    ELSE IF rt = "/api/saudai_sync" THEN "sync"
    ELSE "stream"

\* the aggregator sets a timer with setTimeout(() => controller.abort(), timeoutMs)
HasTimer(r, rt) == Mode(r, rt) \in {"stream", "sync", "chat"}

SAUDAI_INSTRUCTIONS(r) ==
    IF r = "srv"
    THEN "You are SaudAI, an AI version of Saud Rehman. Speak in the first person as \"I\"..."
    ELSE "\nYou are SaudAI, an AI version of Saud Rehman.\n\n"
      \o "Speak in the first person as \"I\", as if you are Saud.\n"
      \o "Tone: friendly, professional, honest, slightly informal when appropriate.\n\n"
      \o "Background you MUST use:\n"
      \o "- Technical Marketing Manager at NASTP (aerospace & defence ecosystem).\n"
      \o "- Experience in renewable energy, C&I solar, IoT & AI products.\n"
      \o "- Past roles: SkyElectric, Renergy Solutions, Rapidev, Spacedome.\n"
      \o "- Education: MEng Renewable Electrical Engineering, BE Electrical & Electronics (COMSATS).\n"
      \o "- Final year project: wind speed forecasting using Bi-LSTM and Bi-GRU.\n\n"
      \o "Guidelines:\n"
      \o "- Be clear and concise.\n"
      \o "- If you don't know something from Saud's real experience, say that you would \"need to check\" rather than inventing.\n"
      \o "- When asked for advice (career, learning, tools), give practical, step-by-step suggestions.\n"

\* `!message || typeof message !== "string"`; the "srv" revision tests
\* `!message` alone
InvalidMessage(r, m) ==
    IF r = "srv" THEN ~Truthy(m) ELSE ~Truthy(m) \/ ~IsString(m)

Turn(role, content) == [role |-> role, content |-> content]

\* BuildMessages with the two turns swapped
BuildMessages_UserFirst(r, m) ==
    <<Turn("user", m), Turn("system", Str(SAUDAI_INSTRUCTIONS(r)))>>

\* the messages array of the handlers that call Ollama
BuildMessages(r, m) ==
    <<Turn("system", Str(SAUDAI_INSTRUCTIONS(r))), Turn("user", m)>>

ModelName(r) ==
    CASE r = "openai" -> "gpt-5.1-mini"
      [] r \in {"p000", "p003"} -> "deepseek-r1:8b"
      [] OTHER -> "deepseek-r1:1.5b"

\* max_new_tokens of genOptions with SAUDAI_MAX_TOKENS unset
MaxNewTokens(r, rt) ==
    CASE r = "srv" /\ rt = "/api/saudai"      -> 200
      [] r = "srv" /\ rt = "/api/saudai_sync" -> 100
      [] r = "p002" /\ rt = "/api/saudai_sync" -> 150
      [] OTHER -> 300

\* The request handed to fetch, or to client.responses.create, with the
\* environment variables unset.  stream is TRUE only where the payload holds
\* `stream: true`; the "p000" revision passes no generation options.
BuildPayload(r, rt, m) ==
    IF Mode(r, rt) = "sdk"
    THEN [api |-> "responses", model |-> ModelName(r),
          instructions |-> SAUDAI_INSTRUCTIONS(r),
          input |-> <<Turn("user", m)>>]
    ELSE [api |-> "http://localhost:11434/api/chat", model |-> ModelName(r),
          messages |-> BuildMessages(r, m),
          stream |-> (Mode(r, rt) = "stream"),
          genOptions |-> IF r = "p000" THEN <<>>
                         ELSE [temperature |-> "0.2",
                               max_new_tokens |-> MaxNewTokens(r, rt)]]

\* The turn sequence a request puts before the model: the messages of an
\* Ollama call; for client.responses.create the instructions, which the
\* Responses API places as the system turn ahead of the input turns.
TurnsSent(call) ==
    IF "instructions" \in DOMAIN call
    THEN <<Turn("system", Str(call.instructions))>> \o call.input
    ELSE call.messages

Response(st, b) == [status |-> st, body |-> b]

Reply(st, text) == Response(st, Obj([reply |-> Str(text)]))

\* the answer to a request whose message fails validation
BadRequest(r) ==
    CASE r = "openai" ->
           Response(400, Obj([error |-> Str("Missing 'message' in request body.")]))
      [] r = "srv" -> Reply(400, "I need a message string.")
      [] OTHER -> Reply(400, "I need a message string to respond to.")

\* the test-mode reply of the "echo" revision
EchoReply(m) ==
    Reply(200, "Hi, I'm SaudAI (test mode). You said: \"" \o m.s
               \o "\". Once backend is stable, I'll use OpenAI to answer properly.")

NoError == [name |-> "", message |-> ""]

\* what an aborted fetch, read or text() rejects with
AbortError == [name |-> "AbortError", message |-> "This operation was aborted"]

\* what fetch, read or text() rejects with when the connection fails
NetworkError == [name |-> "TypeError", message |-> "fetch failed"]

StatusText(st) ==
    CASE st = 200 -> "200" [] st = 204 -> "204" [] st = 404 -> "404"
      [] st = 500 -> "500" [] OTHER -> "0"

\* txt.slice(0, 400) in the error thrown on a non-OK status
ExcerptMax == 400

\* `throw new Error(...)` of callDeepSeekStream on `!resp.ok`
StatusError(r, st, txt) ==
    [name |-> "Error",
     message |-> (IF r = "srv" THEN "Ollama non-OK "
                  ELSE "Ollama responded with status ")
                 \o StatusText(st) \o ": " \o Slice0(txt, ExcerptMax)]

\* ErrorResponse without the test for AbortError
ErrorResponse_Always500(r, rt, e) ==
    Reply(500, "There was an error talking to the model. See server logs.")

\* The catch block of a handler: the response for a caught error.
ErrorResponse(r, rt, e) ==
    CASE r = "openai" ->
           Response(500, Obj([error |-> Str("Error talking to SaudAI backend."),
                              details |-> Str(e.message)]))
      [] r = "p000" ->
           Reply(500, "There was an error talking to the DeepSeek model. Make sure Ollama is running.")
      [] r = "p003" ->
           IF e.name = "AbortError"
           THEN Reply(504, "Request timed out waiting for model. Try again or increase timeout.")
           ELSE Reply(500, "There was an error talking to the model. See server logs.")
      [] r = "p001" ->
           IF e.name = "AbortError"
           THEN Reply(504, "Request timed out waiting for model. Try again or increase timeout.")
           ELSE Reply(500, "There was an error talking to the model. See server logs.")
      [] r = "p002" /\ rt = "/api/saudai" ->
           IF e.name = "AbortError"
           THEN Reply(504, "Request timed out waiting for model (stream). Try increasing SAUDAI_TIMEOUT_MS.")
           ELSE Reply(500, "There was an error talking to the model (stream). See server logs.")
      [] r = "p002" /\ rt = "/api/saudai_sync" ->
           IF e.name = "AbortError"
           THEN Reply(504, "Request timed out waiting for model (sync). Try increasing SAUDAI_TIMEOUT_MS.")
           ELSE Reply(500, "There was an error (sync). See server logs.")
      [] r = "srv" /\ rt = "/api/saudai" ->
           IF e.name = "AbortError"
           THEN Reply(504, "Request timed out waiting for model (stream).")
           ELSE Reply(500, "Stream error. See server logs.")
      [] r = "srv" /\ rt = "/api/saudai_sync" ->
           IF e.name = "AbortError"
           THEN Reply(504, "Request timed out waiting for model (sync).")
           ELSE Reply(500, "Sync error: " \o e.message)

\* StreamResponse without the substitute for an empty reply
StreamResponse_NoSubstitute(r, reply) == Reply(200, reply)

\* The handler of a streaming route, once the aggregator returned `reply`
\* (a string): an empty reply is replaced by a fixed text.
StreamResponse(r, reply) ==
    IF r = "srv"
    THEN (IF reply = "" THEN Reply(200, "No reply (empty).") ELSE Reply(200, reply))
    ELSE (IF reply = "" \/ Len(Trim(reply)) = 0
          THEN Reply(200, "I couldn't generate a response right now. Try again or increase timeout.")
          ELSE Reply(200, reply))

-----------------------------------------------------------------------------
(* The one-shot aggregators: callDeepSeekSync, callOllamaChat and the      *)
(* inline fetch of the "p000" revision.                                    *)

\* text.split("\n").map(l => l.trim()).filter(Boolean), each line decoded as
\* in the streaming loop, the result trimmed
NdjsonText(text) == Trim(LinesText(SplitLines(text)))

\* callDeepSeekSync takes the NDJSON path ("p002" only)
LooksNdjson(ct, text) == Includes(ct, "ndjson") \/ Includes(text, "\n{")

\* The known shapes of a single document, in the order the code tries them;
\* the value returned, or Undefined when none matches.  "srv" has no
\* choices shape.
ShapeValue(r, json) ==
    LET direct  == Get(Get(json, "message"), "content")
        outText == Get(json, "output_text")
        nested  == Get(At(Get(At(Get(json, "output"), 0), "content"), 0), "text")
        choice  == Get(Get(At(Get(json, "choices"), 0), "message"), "content")
    IN  IF IsString(direct) THEN direct
        ELSE IF IsString(outText) THEN outText
        ELSE IF Truthy(nested) THEN nested
        ELSE IF r # "srv" /\ Truthy(choice) THEN choice
        ELSE Undefined

\* The value callDeepSeekSync returns for a body read to the end.  The
\* status of the response is not looked at.
SyncResult(r, ct, text) ==
    IF r = "p002" /\ LooksNdjson(ct, text)
    THEN Str(NdjsonText(text))
    ELSE LET j == JSONParse(Trim(text))
             v == ShapeValue(r, j.v)
         IN  IF j.ok /\ v # Undefined THEN v ELSE Str(text)

\* The reply the "p003" handler extracts from callOllamaChat's result for an
\* OK response: rawText is Null when resp.text() failed.
ChatReply(rawText) ==
    LET j == IF Truthy(rawText) THEN JSONParse(Trim(rawText.s))
             ELSE [ok |-> TRUE, v |-> Null]
        data == IF j.ok THEN j.v ELSE Null
        direct  == Get(Get(data, "message"), "content")
        output  == Get(data, "output")
        c       == At(Get(At(output, 0), "content"), 0)
        ctext   == IF Truthy(Get(Get(c, "text"), "value"))
                   THEN Get(Get(c, "text"), "value") ELSE Get(c, "text")
        outText == Get(data, "output_text")
        choice  == Get(Get(At(Get(data, "choices"), 0), "message"), "content")
        found ==
            IF ~Truthy(data) THEN Null
            ELSE IF IsString(direct) THEN direct
            ELSE IF output.t = "array" /\ Truthy(Get(At(output, 0), "content"))
                 THEN (IF Get(c, "type") = Str("output_text") /\ Truthy(ctext)
                       THEN ctext
                       ELSE IF IsString(c) THEN c ELSE Null)
            ELSE IF IsString(outText) THEN outText
            ELSE IF Truthy(choice) THEN choice
            ELSE Null
    IN  IF Truthy(found) THEN found
        ELSE IF Truthy(rawText) THEN rawText
        ELSE Str("I couldn't generate a response right now. Check model logs or increase timeout.")

\* The reply of the "p000" handler for a body resp.json() parsed to data:
\* message.content ?? output[0].content[0].text ?? JSON.stringify(data).
\* The JSON texts of this model are compact, so that JSON.stringify gives
\* back the text without the white space around it.
PlainReply(text, data) ==
    LET direct == Get(Get(data, "message"), "content")
        nested == Get(At(Get(At(Get(data, "output"), 0), "content"), 0), "text")
    IN  IF direct.t \notin {"undefined", "null"} THEN direct
        ELSE IF nested.t \notin {"undefined", "null"} THEN nested
        ELSE Str(Trim(text))

-----------------------------------------------------------------------------
(* What the client and the backend may do.                                 *)

\* req.body.message of the inbound request
Messages ==
    {Undefined, Null, Str(""), Str("Tell me about your background"), Str("hi"),
     Num("0"), Num("42"), Bool("false"), Bool("true"),
     Obj([text |-> Str("hi")]), Arr(<<Str("hi")>>)}

\* longest chunk the reader returns, unless it returns all that is left
MaxChunk == 3

\* an error body longer than the excerpt kept of it
LongBody ==
    LET ten == "0123456789"
        hundred == ten \o ten \o ten \o ten \o ten \o ten \o ten \o ten \o ten \o ten
    IN  "upstream failure: " \o hundred \o hundred \o hundred \o hundred

\* resp.ok
Ok(st) == st >= 200 /\ st <= 299

\* What the backend answers once it answers: <<status, content-type, body>>.
\* A 204 response has no body (resp.body is null).
BackendAnswers ==
    {<<200, "application/x-ndjson", FragIAm \o "\n" \o FragTech \o "\n" \o FragMgr \o "\n">>,
     <<200, "application/x-ndjson", FragHi \o "\n" \o Garbage \o "\n" \o FragYou>>,
     <<200, "application/json", FragThink \o "\n" \o FragNum>>,
     <<200, "application/json", FragHi>>,
     <<200, "application/x-ndjson", FragThink \o "\n" \o FragSpace \o "\n">>,
     <<200, "application/json", DocMsgAndOut \o "\n">>,
     <<200, "application/json", DocChoices>>,
     <<200, "application/json", DocOutput>>,
     <<200, "application/json", DocTyped>>,
     <<200, "text/plain", "plain text">>,
     <<200, "application/json", "">>,
     <<204, "", "">>,
     <<500, "application/json", DocError>>,
     <<500, "text/plain", LongBody>>,
     <<404, "text/plain", "404 page not found\n">>}

\* what client.responses.create resolves with: response.output_text
SdkOutputs == {"", "I am Saud."}

\* what client.responses.create rejects with
SdkErrors ==
    {[name |-> "APIConnectionTimeoutError", message |-> "Request timed out."],
     [name |-> "InternalServerError", message |-> "500 status code (no body)"]}

NoCuts == [mid |-> FALSE, multi |-> FALSE]

\* the lengths of the next chunk when `left` bytes are still to come
ChunkSizes(left) ==
    (1..(IF left < MaxChunk THEN left ELSE MaxChunk))
        \cup (IF left > 0 THEN {left} ELSE {})

\* Respond that sends the response twice
Respond_Twice(resp) == responses' = responses \o <<resp, resp>>

\* res.status(...).json(...): the response is sent
Respond(resp) == responses' = Append(responses, resp)

\* no second request: the requests of SpecPair before they arrive
NoPair ==
    [fetchImpl   |-> "global",
     interleaved |-> FALSE,
     calls |-> [c \in 1..2 |-> [timer |-> "none", buffer |-> "", finalText |-> ""]],
     reqs  |-> [i \in 1..2 |-> [pc |-> "idle", body |-> "", pos |-> 0,
                                result |-> Undefined, err |-> NoError,
                                responses |-> <<>>]]]

-----------------------------------------------------------------------------
(* The handlers, one action per step between two awaits.                   *)

Init ==
    /\ rev \in Revisions
    /\ route = ""
    /\ message = Undefined
    /\ pc = "idle"
    /\ sent = <<>>
    /\ timer = "none"
    /\ elapsed = FALSE
    /\ status = 0
    /\ ctype = ""
    /\ body = ""
    /\ pos = 0
    /\ buffer = ""
    /\ finalText = ""
    /\ cuts = NoCuts
    /\ result = Undefined
    /\ err = NoError
    /\ responses = <<>>
    /\ netfail = FALSE
    /\ pair = NoPair

\* Receive with the outbound call issued twice
Receive_CallsTwice(rt, m) ==
    /\ pc = "idle"
    /\ rt \in Routes(rev)
    /\ route' = rt
    /\ message' = m
    /\ IF InvalidMessage(rev, m)
       THEN /\ Respond(BadRequest(rev))
            /\ pc' = "done"
            /\ UNCHANGED <<sent, timer>>
       ELSE IF Mode(rev, rt) = "none"
       THEN /\ Respond(EchoReply(m))
            /\ pc' = "done"
            /\ UNCHANGED <<sent, timer>>
       ELSE /\ sent' = sent \o <<BuildPayload(rev, rt, m), BuildPayload(rev, rt, m)>>
            /\ timer' = IF HasTimer(rev, rt) THEN "pending" ELSE "none"
            /\ pc' = "fetch"
            /\ UNCHANGED responses
    /\ UNCHANGED <<pair, netfail, rev, elapsed, status, ctype, body, pos, buffer, finalText,
                   cuts, result, err>>

\* app.post(route): validation, the prompt, and the aggregator up to its
\* `await fetch(...)` (the "sdk" mode: up to `await client.responses.create`)
Receive(rt, m) ==
    /\ pc = "idle"
    /\ rt \in Routes(rev)
    /\ route' = rt
    /\ message' = m
    /\ IF InvalidMessage(rev, m)
       THEN /\ Respond(BadRequest(rev))
            /\ pc' = "done"
            /\ UNCHANGED <<sent, timer>>
       ELSE IF Mode(rev, rt) = "none"
       THEN /\ Respond(EchoReply(m))
            /\ pc' = "done"
            /\ UNCHANGED <<sent, timer>>
       ELSE /\ sent' = Append(sent, BuildPayload(rev, rt, m))
            /\ timer' = IF HasTimer(rev, rt) THEN "pending" ELSE "none"
            /\ pc' = "fetch"
            /\ UNCHANGED responses
    /\ UNCHANGED <<pair, netfail, rev, elapsed, status, ctype, body, pos, buffer, finalText,
                   cuts, result, err>>

\* fetch resolves: the response headers arrived.  The streaming aggregator
\* goes on to resp.text() (not OK), returns "" (no body) or enters the reader
\* loop; the one-shot aggregators clear the timer and go on to resp.text().
Headers(st, ct, b) ==
    /\ pc = "fetch"
    /\ Mode(rev, route) \in {"stream", "sync", "chat", "plain"}
    /\ status' = st
    /\ ctype' = ct
    /\ body' = b
    /\ IF Mode(rev, route) = "stream"
       THEN IF ~Ok(st)
            THEN pc' = "errbody" /\ UNCHANGED <<timer, result, responses>>
            ELSE IF st = 204
            THEN /\ timer' = "cleared"
                 /\ result' = Str("")
                 /\ Respond(StreamResponse(rev, ""))
                 /\ pc' = "done"
            ELSE pc' = "read" /\ UNCHANGED <<timer, result, responses>>
       ELSE IF Mode(rev, route) = "plain"
       THEN /\ pc' = IF Ok(st) THEN "body" ELSE "errbody"
            /\ UNCHANGED <<timer, result, responses>>
       ELSE /\ timer' = "cleared"
            /\ pc' = "body"
            /\ UNCHANGED <<result, responses>>
    /\ UNCHANGED <<pair, netfail, rev, route, message, sent, elapsed, pos, buffer, finalText,
                   cuts, err>>

\* Throw without the clearTimeout of the aggregator's catch block
Throw_NoClear(e) ==
    /\ err' = e
    /\ UNCHANGED <<result, timer>>
    /\ Respond(ErrorResponse(rev, route, e))
    /\ pc' = "done"

\* The catch blocks: the aggregator clears the timer and rethrows, the
\* handler answers.
Throw(e) ==
    /\ err' = e
    /\ UNCHANGED result
    /\ timer' = IF timer = "pending" THEN "cleared" ELSE timer
    /\ Respond(ErrorResponse(rev, route, e))
    /\ pc' = "done"

\* fetch rejects: connection refused, DNS failure
FetchFails ==
    /\ pc = "fetch"
    /\ Mode(rev, route) # "sdk"
    /\ Throw(NetworkError)
    /\ netfail' = TRUE
    /\ UNCHANGED <<pair, rev, route, message, sent, elapsed, status, ctype, body, pos,
                   buffer, finalText, cuts>>

\* The timer fires: controller.abort().  A pending fetch or reader.read()
\* rejects with AbortError.  A pending resp.text() of the streaming
\* aggregator rejects too, but its .catch(() => "") turns that into an
\* empty excerpt, and the status error is thrown.
TimerFires ==
    /\ timer = "pending"
    /\ pc \in {"fetch", "read", "errbody"}
    /\ elapsed' = TRUE
    /\ timer' = "fired"
    /\ err' = IF pc = "errbody" THEN StatusError(rev, status, "") ELSE AbortError
    /\ Respond(ErrorResponse(rev, route, err'))
    /\ pc' = "done"
    /\ UNCHANGED <<pair, netfail, rev, route, message, sent, status, ctype, body, pos, buffer,
                   finalText, cuts, result>>

\* timeoutMs passes after the one-shot aggregator cleared its timer and
\* while it still awaits resp.text(): nothing happens
DeadlinePasses ==
    /\ timer = "cleared"
    /\ pc = "body"
    /\ ~elapsed
    /\ elapsed' = TRUE
    /\ UNCHANGED <<pair, netfail, rev, route, message, pc, sent, timer, status, ctype, body,
                   pos, buffer, finalText, cuts, result, err, responses>>

\* reader.read() returns the next n bytes: one turn of the while loop.  An
\* exception that left the loop body would end the call in the catch blocks.
ReadChunk(n) ==
    /\ pc = "read"
    /\ n \in ChunkSizes(Len(body) - pos)
    /\ LET chunk  == SubSeq(body, pos + 1, pos + n)
           next   == ProcessChunk(buffer, finalText, chunk)
           thrown == LinesThrow(rev, CompleteLines(SplitLines(buffer \o chunk)))
       IN  /\ buffer' = next.buffer
           /\ finalText' = next.finalText
           /\ cuts' = [mid   |-> cuts.mid \/ (next.buffer # "" /\ pos + n < Len(body)),
                       multi |-> cuts.multi \/ Cardinality(Newlines(chunk)) > 1]
           /\ IF thrown = ""
              THEN UNCHANGED <<pc, timer, result, err, responses>>
              ELSE Throw([name |-> thrown, message |-> "Unexpected token"])
    /\ pos' = pos + n
    /\ UNCHANGED <<pair, netfail, rev, route, message, sent, elapsed, status, ctype, body>>

\* reader.read() returns done: the leftover is decoded, the timer cleared,
\* the trimmed text returned and answered by the handler
ReadDone ==
    /\ pc = "read"
    /\ pos = Len(body)
    /\ finalText' = finalText \o LeftoverText(rev, buffer)
    /\ IF LeftoverThrows(rev, buffer) = ""
       THEN /\ timer' = "cleared"
            /\ result' = Str(FinishStream(rev, buffer, finalText))
            /\ Respond(StreamResponse(rev, result'.s))
            /\ pc' = "done"
            /\ UNCHANGED err
       ELSE Throw([name |-> LeftoverThrows(rev, buffer), message |-> "Unexpected token"])
    /\ UNCHANGED <<pair, netfail, rev, route, message, sent, elapsed, status, ctype, body, pos,
                   buffer, cuts>>

\* reader.read() rejects: the connection was lost while streaming
ReadFails ==
    /\ pc = "read"
    /\ Throw(NetworkError)
    /\ netfail' = TRUE
    /\ UNCHANGED <<pair, rev, route, message, sent, elapsed, status, ctype, body, pos,
                   buffer, finalText, cuts>>

\* resp.text() of a non-OK response resolves.  Streaming aggregator: the
\* status error with the excerpt is thrown.  "p000": the handler answers 502.
ErrBodyRead ==
    /\ pc = "errbody"
    /\ pos' = Len(body)
    /\ IF Mode(rev, route) = "stream"
       THEN Throw(StatusError(rev, status, body))
       ELSE /\ Respond(Reply(502, "Model server error: " \o StatusText(status)))
            /\ pc' = "done"
            /\ UNCHANGED <<timer, result, err>>
    /\ UNCHANGED <<pair, netfail, rev, route, message, sent, elapsed, status, ctype, body,
                   buffer, finalText, cuts>>

\* resp.text() of a non-OK response rejects: the connection was lost.
\* Streaming aggregator: .catch(() => "") gives an empty excerpt.
ErrBodyFails ==
    /\ pc = "errbody"
    /\ IF Mode(rev, route) = "stream"
       THEN Throw(StatusError(rev, status, ""))
       ELSE Throw(NetworkError)
    /\ netfail' = TRUE
    /\ UNCHANGED <<pair, rev, route, message, sent, elapsed, status, ctype, body, pos,
                   buffer, finalText, cuts>>

\* What a one-shot aggregator returns once resp.text() gave txt (Null when
\* it rejected and callOllamaChat caught that): callDeepSeekSync the text
\* it extracted, callOllamaChat a record of the response.
OneShotResult(txt) ==
    IF Mode(rev, route) = "sync"
    THEN SyncResult(rev, ctype, ToStr(txt))
    ELSE Obj([ok |-> Bool(IF Ok(status) THEN "true" ELSE "false"),
              status |-> Num(StatusText(status)), rawText |-> txt])

\* The answer of a one-shot handler to what its aggregator returned.
OneShotResponse(res) ==
    IF Mode(rev, route) = "sync"
    THEN Response(200, Obj([reply |-> res]))
    ELSE IF ~Truthy(Get(res, "ok"))
    THEN Reply(502, "Model server error (" \o Get(res, "status").s \o ").")
    ELSE Response(200, Obj([reply |-> ChatReply(Get(res, "rawText"))]))

\* resp.text() (resp.json() in "p000") resolves with the whole body
BodyRead ==
    /\ pc = "body"
    /\ pos' = Len(body)
    /\ IF Mode(rev, route) = "plain"
       THEN LET j == JSONParse(Trim(body)) IN
            IF j.ok
            THEN /\ Respond(Response(200, Obj([reply |-> PlainReply(body, j.v)])))
                 /\ pc' = "done"
                 /\ UNCHANGED <<timer, result, err>>
            ELSE Throw([name |-> "SyntaxError", message |-> "Unexpected token"])
       ELSE /\ result' = OneShotResult(Str(body))
            /\ Respond(OneShotResponse(result'))
            /\ pc' = "done"
            /\ UNCHANGED <<timer, err>>
    /\ UNCHANGED <<pair, netfail, rev, route, message, sent, elapsed, status, ctype, body,
                   buffer, finalText, cuts>>

\* resp.text() rejects: the connection was lost.  callDeepSeekSync goes on
\* with "" and callOllamaChat with null (.catch); "p000" has no catch there.
BodyFails ==
    /\ pc = "body"
    /\ IF Mode(rev, route) = "plain"
       THEN Throw(NetworkError)
       ELSE /\ result' = OneShotResult(IF Mode(rev, route) = "sync" THEN Str("") ELSE Null)
            /\ Respond(OneShotResponse(result'))
            /\ pc' = "done"
            /\ UNCHANGED <<timer, err>>
    /\ netfail' = TRUE
    /\ UNCHANGED <<pair, rev, route, message, sent, elapsed, status, ctype, body, pos,
                   buffer, finalText, cuts>>

\* client.responses.create resolves: reply = output_text || fixed text
SdkResolves(out) ==
    /\ pc = "fetch"
    /\ Mode(rev, route) = "sdk"
    /\ result' = Obj([output_text |-> Str(out)])
    /\ Respond(Reply(200, IF out # "" THEN out
                          ELSE "I couldn't generate a reply right now, please try again."))
    /\ pc' = "done"
    /\ UNCHANGED <<pair, netfail, rev, route, message, sent, timer, elapsed, status, ctype, body,
                   pos, buffer, finalText, cuts, err>>

\* client.responses.create rejects
SdkRejects(e) ==
    /\ pc = "fetch"
    /\ Mode(rev, route) = "sdk"
    /\ Throw(e)
    /\ UNCHANGED <<pair, netfail, rev, route, message, sent, elapsed, status, ctype, body, pos,
                   buffer, finalText, cuts>>

Next ==
    \/ \E rt \in {"/api/saudai", "/api/saudai_sync"}, m \in Messages : Receive(rt, m)
    \/ \E a \in BackendAnswers : Headers(a[1], a[2], a[3])
    \/ FetchFails
    \/ TimerFires
    \/ DeadlinePasses
    \/ \E n \in ChunkSizes(Len(body) - pos) : ReadChunk(n)
    \/ ReadDone
    \/ ReadFails
    \/ ErrBodyRead
    \/ ErrBodyFails
    \/ BodyRead
    \/ BodyFails
    \/ \E out \in SdkOutputs : SdkResolves(out)
    \/ \E e \in SdkErrors : SdkRejects(e)

Spec == Init /\ [][Next]_vars

\* The same program under the one scheduling assumption the timeout design
\* rests on: a timer that stays pending fires.  Nothing is assumed of the
\* backend: it may send headers, bytes, an end, an error, or nothing more.
SpecLive == Init /\ [][Next]_vars /\ WF_vars(TimerFires)

-----------------------------------------------------------------------------
(* The reader loop alone, on every body made of a few lines: the state     *)
(* after an OK response to a streaming call, with no timeout and no        *)
(* network failure.                                                        *)

\* lines a body is made of, at most
MaxLines == 3

\* The lines the backend streams, one after the other: fragments with text,
\* a line that is not JSON, a line ending in "\r", a blank line, fragments
\* with thinking, a number as content, JSON that is no object, a truncated
\* fragment, an indented fragment.
DecodeScript ==
    <<FragHi, Garbage, FragYou \o "\r", "", FragBoth, FragThink, FragHi,
      FragNum, JsonNull, Truncated, FragYou \o "\r", FragHi, " " \o FragBoth>>

RECURSIVE JoinLines(_)
JoinLines(q) ==
    IF q = <<>> THEN ""
    ELSE IF Len(q) = 1 THEN q[1]
    ELSE q[1] \o "\n" \o JoinLines(Tail(q))

\* the bodies: up to MaxLines consecutive lines of the script, the last one
\* with or without its "\n"
DecodeBodies ==
    {JoinLines(SubSeq(DecodeScript, w[1], w[1] + w[2] - 1)) \o t :
        w \in {v \in (1..Len(DecodeScript)) \X (0..MaxLines) :
                  v[1] + v[2] - 1 <= Len(DecodeScript)},
        t \in {"", "\n"}}

InitDecode ==
    /\ rev \in StreamRevisions
    /\ route = "/api/saudai"
    /\ message = Str("hi")
    /\ pc = "read"
    /\ sent = <<BuildPayload(rev, route, message)>>
    /\ timer = "pending"
    /\ elapsed = FALSE
    /\ status = 200
    /\ ctype = "application/x-ndjson"
    /\ body \in DecodeBodies
    /\ pos = 0
    /\ buffer = ""
    /\ finalText = ""
    /\ cuts = NoCuts
    /\ result = Undefined
    /\ err = NoError
    /\ responses = <<>>
    /\ netfail = FALSE
    /\ pair = NoPair

NextDecode ==
    \/ \E n \in ChunkSizes(Len(body) - pos) : ReadChunk(n)
    \/ ReadDone

SpecDecode == InitDecode /\ [][NextDecode]_vars

-----------------------------------------------------------------------------
(* Two requests to /api/saudai served at the same time by one process.     *)
(* Each call of callDeepSeekStream runs in its own closure: controller,    *)
(* timeout, buffer and finalText are locals of the call.  The module-level *)
(* fetchImpl is shared: every call that finds it unset imports node-fetch  *)
(* and assigns it.  A fetch rejects or resolves with an OK stream.         *)

Requests == 1..2

\* length of the chunks the reader returns while two requests are read
\* (or all that is left)
MaxPairChunk == 16

PairChunkSizes(left) ==
    IF left = 0 THEN {} ELSE {IF left < MaxPairChunk THEN left ELSE MaxPairChunk, left}

PairBodies ==
    {FragHi \o "\n" \o Garbage \o "\n" \o FragYou,
     FragIAm \o "\n" \o FragTech \o "\n" \o FragMgr \o "\n"}

\* Locals with one closure shared by all calls
Locals_Shared(i) == 1

\* the closure holding the locals of the call made for request i: a new one
\* for each call (`const controller = new AbortController()`, `let buffer`)
Locals(i) == i

\* request i is being read and is neither at the start nor at the end
MidStream(i) ==
    pair.reqs[i].pc = "read" /\ pair.reqs[i].pos > 0
        /\ pair.reqs[i].pos < Len(pair.reqs[i].body)

InitPair ==
    /\ rev \in StreamRevisions
    /\ route = "/api/saudai"
    /\ message = Str("hi")
    /\ pc = "idle"
    /\ sent = <<>>
    /\ timer = "none"
    /\ elapsed = FALSE
    /\ status = 0
    /\ ctype = ""
    /\ body = ""
    /\ pos = 0
    /\ buffer = ""
    /\ finalText = ""
    /\ cuts = NoCuts
    /\ result = Undefined
    /\ err = NoError
    /\ responses = <<>>
    /\ netfail = FALSE
    /\ pair \in {[NoPair EXCEPT !.fetchImpl = f] : f \in {"global", "unset"}}

\* what the call does once ensureFetch has returned, up to `await fetch`:
\* its own controller, setTimeout, the request sent
CallFetch(p, i) ==
    [p EXCEPT !.calls[Locals(i)] = [timer |-> "pending", buffer |-> "",
                                    finalText |-> ""],
              !.reqs[i] = [@ EXCEPT !.pc = "fetch"]]

\* request i arrives: validation, the prompt, ensureFetch.  With fetchImpl
\* set the call goes on to `await fetch` in the same turn of the event
\* loop; with fetchImpl unset it awaits import("node-fetch").
PairArrive(i) ==
    /\ pair.reqs[i].pc = "idle"
    /\ pair' = IF pair.fetchImpl = "unset"
               THEN [pair EXCEPT !.reqs[i] = [@ EXCEPT !.pc = "import"]]
               ELSE CallFetch(pair, i)
    /\ UNCHANGED <<rev, request>>

\* import("node-fetch") of the call of request i resolves: fetchImpl is
\* assigned (by every call that found it unset), then as above
PairImported(i) ==
    /\ pair.reqs[i].pc = "import"
    /\ pair' = CallFetch([pair EXCEPT !.fetchImpl = "node-fetch"], i)
    /\ UNCHANGED <<rev, request>>

\* fetch of request i resolves with the headers of an OK response with
\* body b: the reader loop begins
PairHeaders(i, b) ==
    /\ pair.reqs[i].pc = "fetch"
    /\ pair' = [pair EXCEPT !.reqs[i] = [@ EXCEPT !.pc = "read", !.body = b]]
    /\ UNCHANGED <<rev, request>>

\* fetch of request i rejects: the catch clears the timer of the call and
\* rethrows, the handler answers 500
PairFetchFails(i) ==
    /\ pair.reqs[i].pc = "fetch"
    /\ pair' = [pair EXCEPT
                  !.calls[Locals(i)] = [@ EXCEPT !.timer = "cleared"],
                  !.reqs[i] = [@ EXCEPT
                      !.pc = "done", !.err = NetworkError,
                      !.responses = Append(@, ErrorResponse(rev, route, NetworkError))]]
    /\ UNCHANGED <<rev, request>>

\* reader.read() of request i returns the next n bytes
PairChunk(i, n) ==
    /\ pair.reqs[i].pc = "read"
    /\ n \in PairChunkSizes(Len(pair.reqs[i].body) - pair.reqs[i].pos)
    /\ LET r     == pair.reqs[i]
           call  == pair.calls[Locals(i)]
           chunk == SubSeq(r.body, r.pos + 1, r.pos + n)
           next  == ProcessChunk(call.buffer, call.finalText, chunk)
       IN  pair' = [pair EXCEPT
                      !.interleaved = @ \/ \E j \in Requests \ {i} : MidStream(j),
                      !.calls[Locals(i)] = [@ EXCEPT !.buffer = next.buffer,
                                                     !.finalText = next.finalText],
                      !.reqs[i] = [@ EXCEPT !.pos = r.pos + n]]
    /\ UNCHANGED <<rev, request>>

\* reader.read() of request i returns done: leftover, clearTimeout, reply
PairDone(i) ==
    /\ pair.reqs[i].pc = "read"
    /\ pair.reqs[i].pos = Len(pair.reqs[i].body)
    /\ LET call == pair.calls[Locals(i)]
           text == FinishStream(rev, call.buffer, call.finalText)
       IN  pair' = [pair EXCEPT
                      !.calls[Locals(i)] =
                          [@ EXCEPT !.timer = "cleared",
                                    !.finalText = @ \o LeftoverText(rev, call.buffer)],
                      !.reqs[i] = [@ EXCEPT !.pc = "done", !.result = Str(text),
                                            !.responses = Append(@, StreamResponse(rev, text))]]
    /\ UNCHANGED <<rev, request>>

\* The timer set by the call of request i fires: its controller aborts, and
\* every fetch and reader.read() pending on that controller's signal rejects.
PairTimerFires(i) ==
    /\ pair.reqs[i].pc \in {"fetch", "read"}
    /\ pair.calls[Locals(i)].timer = "pending"
    /\ pair' = [pair EXCEPT
                  !.calls[Locals(i)] = [@ EXCEPT !.timer = "fired"],
                  !.reqs = [j \in Requests |->
                              IF Locals(j) = Locals(i) /\ pair.reqs[j].pc \in {"fetch", "read"}
                              THEN [pair.reqs[j] EXCEPT
                                      !.pc = "done", !.err = AbortError,
                                      !.responses = Append(@, ErrorResponse(rev, route, AbortError))]
                              ELSE pair.reqs[j]]]
    /\ UNCHANGED <<rev, request>>

NextPair ==
    \/ \E i \in Requests : PairArrive(i)
    \/ \E i \in Requests : PairImported(i)
    \/ \E i \in Requests, b \in PairBodies : PairHeaders(i, b)
    \/ \E i \in Requests : PairFetchFails(i)
    \/ \E i \in Requests :
          \E n \in PairChunkSizes(Len(pair.reqs[i].body) - pair.reqs[i].pos) :
              PairChunk(i, n)
    \/ \E i \in Requests : PairDone(i)
    \/ \E i \in Requests : PairTimerFires(i)

SpecPair == InitPair /\ [][NextPair]_vars

-----------------------------------------------------------------------------
(* Properties.                                                             *)

\* the one response sent has status st
Answered(st) == Len(responses) = 1 /\ responses[1].status = st

\* C1: a request whose message is missing, empty or not a string is
\* answered with 400, and no backend call is issued for it.  (Stated as the
\* claim has it; the "srv" revision forwards a truthy non-string message.)
C1_InvalidMessageRejected ==
    pc # "idle" /\ (~IsString(message) \/ message.s = "")
        => sent = <<>> /\ Answered(400)

\* C2: for a non-empty string message, the turn sequence sent to the backend
\* is the system persona turn followed by one user turn holding the message
\* unchanged, and nothing else; revisions with a backend send it once.
C2_TwoTurnsInOrder ==
    pc # "idle" /\ IsString(message) /\ message.s # ""
        => /\ Len(sent) = (IF Mode(rev, route) = "none" THEN 0 ELSE 1)
           /\ \A i \in 1..Len(sent) :
                 TurnsSent(sent[i]) =
                    <<Turn("system", Str(SAUDAI_INSTRUCTIONS(rev))),
                      Turn("user", message)>>

\* a streaming call for a string message is in flight
C2_Witness ==
    /\ pc = "fetch"
    /\ rev = "p002"
    /\ message = Str("Tell me about your background")
    /\ Len(sent) = 1
    /\ sent[1].messages[2].content.s = "Tell me about your background"

\* the text delta of a line: message.content when the line is JSON and the
\* content a string
DeltaOf(line) ==
    LET j == JSONParse(Trim(line))
        content == Get(Get(j.v, "message"), "content")
    IN  IF j.ok /\ IsString(content) THEN content.s ELSE ""

RECURSIVE Deltas(_)
Deltas(lines) ==
    IF lines = <<>> THEN "" ELSE DeltaOf(Head(lines)) \o Deltas(Tail(lines))

\* every line of text is blank or JSON whose text delta, when it has one,
\* is a string
ValidNdjson(text) ==
    \A i \in DOMAIN SplitLines(text) :
        LET line == SplitLines(text)[i]
            j == JSONParse(Trim(line))
            content == Get(Get(j.v, "message"), "content")
        IN  Trim(line) = "" \/ (j.ok /\ (content = Undefined \/ IsString(content)))

\* the reader loop on text that arrives as one chunk
DecodeWhole(r, text) ==
    LET st == ProcessChunk("", "", text) IN FinishStream(r, st.buffer, st.finalText)

\* C3: the text the reader loop returns after any sequence of chunks is the
\* text it returns for the body arriving as one chunk, and for a valid
\* NDJSON body it is the text of decoding the whole lines of the body in
\* one pass.
C3_ChunkingIndependent ==
    pc = "done"
        => /\ result = Str(DecodeWhole(rev, body))
           /\ ValidNdjson(body) => result = Str(NdjsonText(body))

\* a valid body of several lines was read in chunks, one of them ending
\* inside a line and one holding several line ends, and gave text
C3_Witness ==
    /\ pc = "done"
    /\ ValidNdjson(body)
    /\ Cardinality(Newlines(body)) >= 2
    /\ cuts.mid /\ cuts.multi
    /\ result # Str("")

\* C4: a streaming call that got an OK response and read it to the end
\* returns the string text deltas of its lines, concatenated in order and
\* trimmed.  (Stated as the claim has it; the "srv" revision also appends a
\* leftover text delta that is not a string.)
C4_ReplyIsTrimmedConcat ==
    pc = "done" /\ Mode(rev, route) = "stream" /\ Ok(status) /\ err = NoError
        => result = Str(Trim(Deltas(SplitLines(body))))

\* a complete line that is not blank and not JSON
Malformed(line) == Trim(line) # "" /\ ~JSONParse(Trim(line)).ok

\* text without its malformed lines
WithoutMalformed(text) ==
    LET lines == SplitLines(text) IN
    JoinLines(SelectSeq(CompleteLines(lines), LAMBDA l : ~Malformed(l))
              \o <<IF Malformed(Remainder(lines)) THEN "" ELSE Remainder(lines)>>)

\* C5: a malformed line has no effect: the text
\* returned is the text returned for the body without such lines, in the
\* reader loop and in the line-by-line path of callDeepSeekSync.
C5_MalformedLineDropped ==
    pc = "done"
        => /\ result = Str(DecodeWhole(rev, WithoutMalformed(body)))
           /\ NdjsonText(body) = NdjsonText(WithoutMalformed(body))

\* a line that is not JSON stood between two fragments with text
C5_Witness ==
    /\ pc = "done"
    /\ body = FragHi \o "\n" \o Garbage \o "\n" \o FragYou \o "\r\n"
    /\ cuts.mid
    /\ result = Str("Hi  you")

\* C6: when the timeout elapses before the response headers arrived, the
\* handler caught AbortError and answered 504.
C6_TimeoutBeforeBytes ==
    elapsed /\ status = 0 => err = AbortError /\ Answered(504)

\* the timer fired while fetch was pending in the streaming aggregator
C6_Witness ==
    /\ rev = "p002" /\ route = "/api/saudai"
    /\ elapsed /\ status = 0 /\ timer = "fired"
    /\ Answered(504)

\* C7: in streaming mode a timer that fired made the call fail with
\* AbortError, answered 504.  (Stated as the claim has it; a timer firing
\* while the body of a non-OK response is read ends in the status error.)
C7_TimerFiredIsTimeout ==
    Mode(rev, route) = "stream" /\ timer = "fired"
        => err = AbortError /\ Answered(504)

\* C8: in the one-shot aggregators, a request whose timeout passed before
\* the call completed was aborted and answered 504.  (Stated as the
\* claim has it; the timer is cleared before the body is read.)
C8_OneShotTimeout ==
    pc = "done" /\ Mode(rev, route) \in {"sync", "chat"} /\ elapsed
        => err = AbortError /\ Answered(504)

\* C9: a non-OK backend response, read to its end, is answered with 502.
\* (Stated as the claim has it; the streaming handlers answer 500 and the
\* sync handlers 200.)
C9_BackendErrorIs502 ==
    pc = "done" /\ status # 0 /\ ~Ok(status) /\ pos = Len(body) /\ ~elapsed
        => Answered(502)

\* C10: in streaming and in sync mode a non-OK backend response makes the
\* aggregator throw an error that carries the status and at most 400
\* characters of the body, and return nothing.  (Stated as the claim has
\* it; callDeepSeekSync does not look at the status.)
C10_BackendErrorPropagated ==
    /\ pc = "done" /\ Mode(rev, route) \in {"stream", "sync"}
    /\ status # 0 /\ ~Ok(status) /\ pos = Len(body) /\ ~elapsed
    => /\ err.name = "Error"
       /\ Includes(err.message, StatusText(status) \o ": " \o Slice0(body, ExcerptMax))
       /\ Len(body) > ExcerptMax => ~Includes(err.message, body)
       /\ result = Undefined

\* The request ended on a network failure: fetch, reader.read() or
\* resp.text() rejected with a network error (whether or not a .catch
\* swallowed the rejection).
NetworkFailed == pc = "done" /\ netfail

\* C11: a request that ended on a network failure is answered with an
\* error status other than 504, never with 200.  (Stated as the claim has
\* it; the one-shot aggregators turn a failed body read into an empty text.)
C11_NetworkFailureIsError ==
    NetworkFailed
        => /\ Len(responses) = 1
           /\ responses[1].status >= 400
           /\ responses[1].status # 504

\* the reply field of a response body
ReplyOf(resp) == Get(resp.body, "reply")

\* C12: a streaming call that returned the empty text is answered with 200
\* and a reply that is a string with something other than white space in it.
C12_EmptyReplySubstituted ==
    pc = "done" /\ Mode(rev, route) = "stream" /\ result = Str("")
        => /\ Answered(200)
           /\ IsString(ReplyOf(responses[1]))
           /\ Trim(ReplyOf(responses[1]).s) # ""

\* the stream carried a fragment without text and one with a blank only
C12_Witness ==
    /\ pc = "done" /\ rev = "p002"
    /\ body = FragThink \o "\n" \o FragSpace \o "\n"
    /\ finalText = " "
    /\ result = Str("")
    /\ Answered(200)

\* the status the gateway owes a finished request, by its failure class:
\* bad input, timeout, failure reported by the backend, unexpected failure
OwedStatus ==
    IF ~IsString(message) \/ message.s = "" THEN 400
    ELSE IF elapsed THEN 504
    ELSE IF status # 0 /\ ~Ok(status) THEN 502
    ELSE IF err # NoError \/ NetworkFailed THEN 500
    ELSE 200

\* C13: every finished request got one response, whose body holds a reply
\* string and whose status is the one its failure class asks for.  (Stated
\* as the claim has it; the OpenAI revision answers failures with an
\* `error` field, and a backend failure is answered 500 or 200.)
C13_JsonReplyOnEveryPath ==
    pc = "done"
        => /\ Len(responses) = 1
           /\ IsString(ReplyOf(responses[1]))
           /\ responses[1].status = OwedStatus

\* The reply the claim's order of shapes gives for a single document:
\* message.content when a string, then output_text when a string, then
\* output[0].content[0].text, then choices[0].message.content, else the
\* raw body.
FirstShape(text) ==
    LET j == JSONParse(Trim(text))
        direct  == Get(Get(j.v, "message"), "content")
        outText == Get(j.v, "output_text")
        nested  == Get(At(Get(At(Get(j.v, "output"), 0), "content"), 0), "text")
        choice  == Get(Get(At(Get(j.v, "choices"), 0), "message"), "content")
    IN  IF ~j.ok THEN Str(text)
        ELSE IF IsString(direct) THEN direct
        ELSE IF IsString(outText) THEN outText
        ELSE IF Truthy(nested) THEN nested
        ELSE IF Truthy(choice) THEN choice
        ELSE Str(text)

\* text.split("\n").map(l => l.trim()).filter(Boolean): the lines of text,
\* trimmed, without the empty ones
NonBlankLines(text) ==
    LET lines == SplitLines(text)
    IN  SelectSeq([i \in 1..Len(lines) |-> Trim(lines[i])], LAMBDA l : l # "")

\* C14: a one-shot call (callDeepSeekSync, callOllamaChat) that read a
\* single-document body of an OK response replies with the first shape of
\* the fixed order that matches, or with the raw body.  (Stated as the claim
\* has it; the "p003" handler tries the shapes in another order and in an
\* else-if chain, the "srv" revision has no choices shape.)
C14_FirstShapeWins ==
    /\ pc = "done" /\ Mode(rev, route) \in {"sync", "chat"}
    /\ Ok(status) /\ pos = Len(body)
    /\ Len(NonBlankLines(body)) = 1 /\ ~Includes(ctype, "ndjson")
    => /\ Answered(200)
       /\ ReplyOf(responses[1]) = FirstShape(body)

\* C15: callDeepSeekSync returns for a body of several fragments the text
\* the streaming decoder returns for it, and handles a body of one document
\* as a single document.  (Stated as the claim has it; the "srv" revision
\* has no line-by-line path.)
C15_SyncDetectsNdjson ==
    pc = "done" /\ Mode(rev, route) = "sync" /\ Ok(status) /\ pos = Len(body)
        => IF Len(NonBlankLines(body)) > 1
           THEN result = Str(DecodeWhole(rev, body))
           ELSE result = FirstShape(body)

\* C16: no response is sent while the timer of the request is pending: the
\* aggregator cleared it, or it fired, before the handler answered.
C16_TimerResolvedBeforeResponse ==
    Len(responses) > 0 \/ pc = "done" => timer \in {"none", "cleared", "fired"}

\* the streaming aggregator threw the status error and the timer is cleared
C16_Witness ==
    /\ pc = "done" /\ Mode(rev, route) = "stream"
    /\ status = 500 /\ err.name = "Error"
    /\ timer = "cleared"
    /\ Answered(500)

\* the bytes of the body received so far
Received == SubSeq(body, 1, pos)

\* what follows the last "\n" of text
AfterLastNewline(text) ==
    IF Newlines(text) = {} THEN text
    ELSE SubSeq(text, Greatest(Newlines(text)) + 1, Len(text))

\* C17: while the stream is open the buffer is what was received after the
\* last "\n", it holds no "\n", and finalText is the text of the complete
\* lines received, without anything of the partial line.
C17_PartialLineNeverDecoded ==
    pc = "read"
        => /\ buffer = AfterLastNewline(Received)
           /\ Newlines(buffer) = {}
           /\ finalText = Deltas(CompleteLines(SplitLines(Received)))

\* a whole fragment with text is in the buffer, its "\n" not yet received,
\* and its text is not in finalText
C17_Witness ==
    /\ pc = "read"
    /\ buffer = FragYou \o "\r"
    /\ pos < Len(body)
    /\ finalText = "Hi "
    /\ cuts.mid

\* the content of a fragment is there and is not a string
NonStringDelta(line) ==
    LET j == JSONParse(Trim(line))
        content == Get(Get(j.v, "message"), "content")
    IN  j.ok /\ content # Undefined /\ ~IsString(content)

\* C18: a stream that ended with a residue in the buffer returns the text of
\* the complete lines followed by the text delta of the residue, once, and
\* the text of the complete lines alone when the residue is not a
\* well-formed fragment.  (A residue whose content is not a string is the
\* case of C20.)
C18_ResidueDecodedOnce ==
    pc = "done" /\ Trim(buffer) # "" /\ ~NonStringDelta(buffer)
        => /\ buffer = AfterLastNewline(body)
           /\ result = Str(Trim(Deltas(CompleteLines(SplitLines(body)))
                                \o DeltaOf(buffer)))
           /\ Malformed(buffer)
                => result = Str(Trim(Deltas(CompleteLines(SplitLines(body)))))

\* the stream ended on a fragment with text and no "\n" after it
C18_Witness ==
    /\ pc = "done"
    /\ body = FragHi \o "\n" \o Garbage \o "\n" \o FragYou \o "\r"
    /\ buffer = FragYou \o "\r"
    /\ result = Str("Hi  you")

\* C19: a streaming call whose OK response was read to its end returned a
\* string and was answered with 200, whatever its lines held.
C19_DecodeFailuresAbsorbed ==
    pc = "done"
        => /\ err = NoError
           /\ IsString(result)
           /\ Answered(200)

\* the stream held a line that is not JSON, JSON that is no object, and a
\* truncated fragment as residue
C19_Witness ==
    /\ pc = "done" /\ rev = "p001"
    /\ body = FragNum \o "\n" \o JsonNull \o "\n" \o Truncated
    /\ Answered(200)

\* C20: finalText holds the string text deltas of the lines decoded so far
\* and nothing else: of the complete lines while the stream is open, of all
\* lines once the residue was decoded.  (Stated as the claim has it; the
\* "srv" revision appends a residue's content that is not a string.)
C20_OnlyStringDeltas ==
    /\ pc = "read" => finalText = Deltas(CompleteLines(SplitLines(Received)))
    /\ pc = "done" => finalText = Deltas(SplitLines(body))

\* a line with the thinking field taken out of its fragment
ThinkingFree(line) ==
    IF Trim(line) = FragThink THEN FragEmpty
    ELSE IF Trim(line) = FragBoth THEN FragOk
    ELSE line

\* a body with the thinking field taken out of every fragment
RECURSIVE MapThinkingFree(_)
MapThinkingFree(lines) ==
    IF lines = <<>> THEN <<>>
    ELSE <<ThinkingFree(Head(lines))>> \o MapThinkingFree(Tail(lines))

WithoutThinking(text) == JoinLines(MapThinkingFree(SplitLines(text)))

\* C21: the thinking field never reaches the reply: the text returned is
\* the text returned for the body with the thinking fields taken out, and
\* the thinking text is nowhere in it.
C21_ThinkingIgnored ==
    /\ ~Includes(finalText, "hm")
    /\ pc = "done"
         => /\ result = Str(DecodeWhole(rev, WithoutThinking(body)))
            /\ ~Includes(result.s, "hm")

\* a fragment with text and thinking, one with thinking alone, one with text
C21_Witness ==
    /\ pc = "done"
    /\ body = FragBoth \o "\n" \o FragThink \o "\n" \o FragHi \o "\n"
    /\ cuts.mid
    /\ result = Str("okHi")

\* C22: a request issues at most one outbound call, whatever follows it,
\* and none when it is answered with 400.
C22_AtMostOneCall ==
    /\ Len(sent) <= 1
    /\ Answered(400) => sent = <<>>

\* the one call failed on the network and was answered; no second call
C22_Witness ==
    /\ pc = "done" /\ rev = "p002"
    /\ err = NetworkError
    /\ Answered(500)
    /\ Len(sent) = 1

\* the bytes of request i received so far
ReceivedBy(i) == SubSeq(pair.reqs[i].body, 1, pair.reqs[i].pos)

\* C23: with two requests served together, under every interleaving of
\* their chunks and timers, each request's buffer, text, result and response
\* are those of the request running alone, and a request is aborted only by
\* the timer of its own call.
C23_RequestsIsolated ==
    \A i \in Requests :
        LET r == pair.reqs[i]
            call == pair.calls[i]
        IN  /\ r.pc \in {"idle", "import"} => call.timer = "none"
            /\ r.pc = "fetch"
              => call = [timer |-> "pending", buffer |-> "", finalText |-> ""]
            /\ r.pc = "read"
              => /\ call.buffer = AfterLastNewline(ReceivedBy(i))
                 /\ call.finalText = Deltas(CompleteLines(SplitLines(ReceivedBy(i))))
                 /\ call.timer = "pending"
            /\ r.pc = "done"
              => /\ Len(r.responses) = 1
                 /\ IF r.err = AbortError
                    THEN call.timer = "fired" /\ r.responses[1].status = 504
                    ELSE IF r.err = NetworkError
                    THEN call.timer = "cleared" /\ r.responses[1].status = 500
                    ELSE /\ r.result = Str(DecodeWhole(rev, r.body))
                         /\ r.responses[1] = StreamResponse(rev, r.result.s)
                         /\ call.timer = "cleared"

\* the chunks of the two requests interleaved; the timer of request 1 fired
\* in mid-stream and request 2 was read to its end and answered
C23_Witness ==
    /\ pair.interleaved
    /\ pair.reqs[1].pc = "done" /\ pair.reqs[1].err = AbortError
    /\ pair.reqs[1].pos > 0
    /\ pair.reqs[2].pc = "done"
    /\ pair.reqs[2].result = Str("Hi  you")

-----------------------------------------------------------------------------
\* C24: every inbound request eventually receives a response, whatever the
\* backend does, assuming only that a pending timer fires when due.
\* Fails: the one-shot aggregators clear the timer as soon as the headers
\* arrive and then await resp.text() unguarded; "p000" and the SDK revision
\* set no timer at all.  A backend that stalls there leaves the request
\* unanswered forever.
C24_EventuallyAnswered == (pc # "idle") ~> (pc = "done")

-----------------------------------------------------------------------------
\* C25: a request gets at most one response, a handler that has finished
\* has sent exactly one, and a response once sent is never sent again or
\* altered, on every path: the early 400, the substituted reply, success,
\* and an error caught in the handler.
C25_ExactlyOneResponse ==
    /\ [](/\ Len(responses) <= 1
          /\ pc = "done" <=> Len(responses) = 1)
    /\ [][responses # <<>> => responses' = responses]_vars

C25_Witness ==
    /\ pc = "done" /\ rev = "p003"
    /\ err = AbortError
    /\ responses = <<ErrorResponse(rev, route, AbortError)>>

-----------------------------------------------------------------------------
\* a is a prefix of b
IsPrefix(a, b) == Len(a) <= Len(b) /\ SubSeq(b, 1, Len(a)) = a

\* C26: while streaming, the accumulated text only grows at its end: after
\* every step its value has the previous value as a prefix.  Trimming is
\* applied once, to the result returned, never to the accumulated text.
C26_AppendOnly ==
    /\ [][IsPrefix(finalText, finalText')]_vars
    /\ [](pc = "done" /\ err = NoError => result = Str(Trim(finalText)))

C26_Witness ==
    /\ pc = "done" /\ cuts.mid
    /\ body = FragYou \o "\r\n" \o FragHi \o "\n"
    /\ finalText = " youHi "
    /\ result = Str("youHi")

=============================================================================
